---- MODULE Spec2Model ----
(***************************************************************************)
(* fingertips: an inverted-index builder.                                  *)
(*                                                                         *)
(* The model follows the Rust sources: index.rs (tokenizer and in-memory   *)
(* index), write.rs (index file writer), read.rs (linear reader used for   *)
(* merging), tmp.rs (temporary file names), merge.rs (cascaded k-way file  *)
(* merge) and main.rs (the single-threaded build and the five-stage        *)
(* pipeline).                                                              *)
(*                                                                         *)
(* Representation.  A text is a sequence of character codes.  A term is a  *)
(* sequence of (lower-cased) character codes.  The bytes of a Hit are kept *)
(* as a sequence of 4-byte little-endian words; a word is <<"doc", d>> for *)
(* a document id and <<"pos", p>> for a position (the tag is ghost         *)
(* information, the order and the number of words are those of the bytes). *)
(* An index file is [header, main, contents]: the 8-byte header value, the *)
(* words of the Main region and the entries of the Contents region.        *)
(* The output directory is fs = [tmp, index]: tmp maps the name of an      *)
(* existing file tmp<n as 8 hex digits>.dat (the sequence of its 8 digits) *)
(* to its content, index is the content of index.dat (a sequence of length *)
(* 0 or 1).                                                                *)
(***************************************************************************)
EXTENDS Integers, Sequences, FiniteSets, TLC

(***************************************************************************)
(* Program constants.                                                      *)
(***************************************************************************)
NSTREAMS == 8
HEADER_SIZE == 8
TRY_LIMIT == 999
U32_BYTES == 4

(***************************************************************************)
(* Bounds of the model.  REASONABLE_SIZE is 100_000_000 in index.rs; the   *)
(* model scales it down so that small documents make the accumulator       *)
(* large.  MaxShort bounds the exhaustively enumerated input lists,        *)
(* MaxDocs the length of the long (periodic) input lists and MaxFair that  *)
(* of the periodic lists of the runs checked under fairness.               *)
(***************************************************************************)
REASONABLE_SIZE == 1
MaxShort == 2
MaxDocs == 15
MaxFair == 6

(***************************************************************************)
(* Generic helpers on sequences.                                           *)
(***************************************************************************)
Reverse(s) == [i \in 1..Len(s) |-> s[Len(s) + 1 - i]]

Range(s) == {s[i] : i \in DOMAIN s}

RECURSIVE Flatten(_)
Flatten(ss) == IF ss = <<>> THEN <<>> ELSE Head(ss) \o Flatten(Tail(ss))

RECURSIVE SortedNats(_)
SortedNats(S) ==
    IF S = {} THEN <<>>
    ELSE LET m == CHOOSE x \in S : \A y \in S : x <= y
         IN  <<m>> \o SortedNats(S \ {m})

(***************************************************************************)
(* index.rs: tokenizer and InMemoryIndex.                                  *)
(***************************************************************************)
\* char::is_alphanumeric on the ASCII range: digits and letters.
is_alphanumeric(ch) == ch \in (48..57) \cup (65..90) \cup (97..122)

\* str::to_lowercase on the ASCII range.
to_lowercase(text) ==
    [i \in 1..Len(text) |-> IF text[i] \in 65..90 THEN text[i] + 32 ELSE text[i]]

RECURSIVE tokenize_from(_, _, _, _)
tokenize_from(text, i, word, out) ==
    LET closed == IF word = <<>> THEN out ELSE Append(out, word)
    IN  IF i > Len(text) THEN closed
        ELSE IF is_alphanumeric(text[i])
             THEN tokenize_from(text, i + 1, Append(word, text[i]), out)
             ELSE tokenize_from(text, i + 1, <<>>, closed)

\* Split on every non-alphanumeric character and drop the empty words.
tokenize(text) == tokenize_from(text, 1, <<>>, <<>>)

InMemoryIndex_new == [word_count |-> 0, map |-> <<>>]

\* One Hit per distinct term: the document id, then the position of every
\* occurrence in text order.
from_single_document(document_id, text) ==
    LET tokens == tokenize(to_lowercase(text))
        hit(t) == <<<<"doc", document_id>>>> \o
                  [k \in 1..Cardinality({i \in DOMAIN tokens : tokens[i] = t}) |->
                     <<"pos", SortedNats({i \in DOMAIN tokens : tokens[i] = t})[k] - 1>>]
    IN  [word_count |-> Len(tokens),
         map |-> [t \in Range(tokens) |-> <<hit(t)>>]]

\* What from_single_document prints: for every hundredth document id,
\* println!("indexed document {}, {} bytes, {} words", ...).
from_single_document_prints(document_id, text) ==
    IF document_id % 100 = 0
    THEN <<<<"indexed document ", document_id, Len(to_lowercase(text)),
             Len(tokenize(to_lowercase(text)))>>>>
    ELSE <<>>

\* A merge that inserts the hits of other in place of those of self.
InMemoryIndex_merge_Insert(self, other) ==
    [word_count |-> self.word_count + other.word_count,
     map |-> [t \in (DOMAIN self.map) \cup (DOMAIN other.map) |->
                IF t \in DOMAIN other.map THEN other.map[t] ELSE self.map[t]]]

\* self.merge(other): the hits of other are appended after those of self.
InMemoryIndex_merge(self, other) ==
    [word_count |-> self.word_count + other.word_count,
     map |-> [t \in (DOMAIN self.map) \cup (DOMAIN other.map) |->
                (IF t \in DOMAIN self.map THEN self.map[t] ELSE <<>>) \o
                (IF t \in DOMAIN other.map THEN other.map[t] ELSE <<>>)]]

\* An emptiness test that no index passes.
is_empty_Never(index) == index.word_count < 0

is_empty(index) == index.word_count = 0

\* A size test that an index of exactly REASONABLE_SIZE words passes.
is_large_AtLeast(index) == index.word_count >= REASONABLE_SIZE

is_large(index) == index.word_count > REASONABLE_SIZE

(***************************************************************************)
(* Terms in ascending byte order (String::cmp).                            *)
(***************************************************************************)
TermLess(a, b) ==
    \E k \in 1..Len(b) :
        /\ Len(a) >= k - 1
        /\ \A j \in 1..(k - 1) : a[j] = b[j]
        /\ (Len(a) < k \/ a[k] < b[k])

\* The terms in an order that is not ascending (here: descending), as an
\* unsorted walk of the HashMap may give them.
RECURSIVE SortedTerms_Unsorted(_)
SortedTerms_Unsorted(S) ==
    IF S = {} THEN <<>>
    ELSE LET m == CHOOSE t \in S : \A u \in S \ {t} : TermLess(u, t)
         IN  <<m>> \o SortedTerms_Unsorted(S \ {m})

RECURSIVE SortedTerms(_)
SortedTerms(S) ==
    IF S = {} THEN <<>>
    ELSE LET m == CHOOSE t \in S : \A u \in S \ {t} : TermLess(t, u)
         IN  <<m>> \o SortedTerms(S \ {m})

(***************************************************************************)
(* The output directory: tmp holds the temporary files by name, index the  *)
(* file index.dat when there is one.  The other fields are a record of     *)
(* what was done to the directory: how many times each name was created,   *)
(* unlinked and renamed, whether an injected I/O fault has struck          *)
(* (faulted), and the calls of merge_streams in order, each with its       *)
(* caller.  stdout is what the process has written on its standard output, *)
(* line by line.                                                           *)
(***************************************************************************)
NoFiles == [n \in {} |-> 0]

EmptyDir ==
    [tmp |-> NoFiles, index |-> <<>>,
     created |-> NoFiles, unlinked |-> NoFiles, renamed |-> NoFiles, faulted |-> FALSE,
     merges |-> <<>>, stdout |-> <<>>]

\* An injected I/O fault has struck.
Faulted(fs) == [fs EXCEPT !.faulted = TRUE]

\* println! of each of `lines`.
Printed(fs, lines) == [fs EXCEPT !.stdout = @ \o lines]

\* How many times name n is counted in `counts`.
Count(counts, n) == IF n \in DOMAIN counts THEN counts[n] ELSE 0

CountOneMore(counts, n) ==
    [x \in (DOMAIN counts) \cup {n} |-> Count(counts, x) + (IF x = n THEN 1 ELSE 0)]

RECURSIVE CountAll(_, _)
CountAll(counts, names) ==
    IF names = <<>> THEN counts
    ELSE CountAll(CountOneMore(counts, Head(names)), Tail(names))

\* What create_new leaves on disk until the writer has finished the file:
\* the zero header IndexFileWriter::new writes, nothing else guaranteed.
UnfinishedFile == [header |-> 0, main |-> <<>>, contents |-> <<>>]

PutFile(fs, n, file) ==
    [fs EXCEPT !.tmp = [x \in (DOMAIN fs.tmp) \cup {n} |->
                           IF x = n THEN file ELSE fs.tmp[x]]]

\* Files that stay in the directory when they are opened.
RemoveFiles_Keep(fs, names) == fs

RemoveFiles(fs, names) ==
    [fs EXCEPT !.tmp = [x \in (DOMAIN fs.tmp) \ names |-> fs.tmp[x]]]

\* A merge that leaves the last of its inputs in the directory.
Unlink_AllButLast(fs, files) ==
    [RemoveFiles(fs, {files[i] : i \in 1..(Len(files) - 1)})
        EXCEPT !.unlinked = CountAll(@, SubSeq(files, 1, Len(files) - 1))]

\* fs::remove_file of each of `files`, in order.
Unlink(fs, files) ==
    [RemoveFiles(fs, {files[i] : i \in 1..Len(files)})
        EXCEPT !.unlinked = CountAll(@, files)]

(***************************************************************************)
(* I/O faults.  Every operation on the file system may fail; an action     *)
(* draws one fault, which names the kind of operation that fails when the  *)
(* action performs it (and, for "open", which input of the merge).         *)
(*   create  TmpDir::create: the open fails with an error other than       *)
(*           AlreadyExists                                                 *)
(*   write   write_index_to_tmp_file fails after the file was created      *)
(*   open    merge_streams: open_and_delete of input number `at` fails     *)
(*   merge   merge_streams fails while copying (read or write error)       *)
(*   rename  FileMerge::finish: fs::rename fails                           *)
(***************************************************************************)
NoFault == [op |-> "none", at |-> 0]

\* The faults of write_index_to_tmp_file.
WriterFaults == {NoFault} \cup {[op |-> o, at |-> 0] : o \in {"create", "write"}}

\* The faults of FileMerge::add_file and FileMerge::finish.
MergeFaults ==
    {NoFault} \cup
    {[op |-> o, at |-> 0] : o \in {"create", "merge", "rename"}} \cup
    {[op |-> "open", at |-> k] : k \in 1..NSTREAMS}

Faults == WriterFaults \cup MergeFaults

(***************************************************************************)
(* tmp.rs: TmpDir.  The state of a TmpDir is its counter n (dir is the     *)
(* output directory throughout).  History: tried lists the attempts of     *)
(* its create calls, each [n, try, outcome, returned]: the counter value   *)
(* used for the name, the value of r#try, what the open returned ("Ok",    *)
(* "AlreadyExists", "Io") and whether create returned on this attempt.     *)
(***************************************************************************)
TmpDir_new == [n |-> 1, tried |-> <<>>]

\* The digits of format!("{:x}", n), most significant first.
RECURSIVE hex_digits(_)
hex_digits(n) ==
    IF n < 16 THEN <<n>> ELSE Append(hex_digits(n \div 16), n % 16)

\* format!("tmp{:08x}.dat", n): a name is kept as the sequence of its hex
\* digits, padded with zeros on the left to a width of eight.
tmp_filename(n) ==
    LET digits == hex_digits(n)
        pad    == IF Len(digits) >= 8 THEN 0 ELSE 8 - Len(digits)
    IN  [i \in 1..pad |-> 0] \o digits

\* The path of a call that returned no file.
NoFilename == <<>>

\* The open of attempt number try (r#try) of a create call on self fails
\* with AlreadyExists: the attempts of a call use self.n, self.n + 1, ...
collides(self, try, fs) == tmp_filename(self.n + try - 1) \in DOMAIN fs.tmp

\* A loop that gives up one attempt later.
last_try_OneMore(self, fs) ==
    CHOOSE try \in 1..(TRY_LIMIT + 1) :
        /\ try = TRY_LIMIT + 1 \/ ~collides(self, try, fs)
        /\ \A earlier \in 1..(try - 1) : collides(self, earlier, fs)

\* The attempt on which the loop of create returns: the first whose open
\* does not fail with AlreadyExists, or else the one with r#try = 999.
last_try(self, fs) ==
    CHOOSE try \in 1..TRY_LIMIT :
        /\ try = TRY_LIMIT \/ ~collides(self, try, fs)
        /\ \A earlier \in 1..(try - 1) : collides(self, earlier, fs)

\* What the open of attempt number try returns.
open_outcome(self, try, fs, fault) ==
    IF collides(self, try, fs) THEN "AlreadyExists"
    ELSE IF fault.op = "create" THEN "Io" ELSE "Ok"

\* self after a call that returned on attempt number last: self.n += 1 on
\* every attempt, and the attempts added to the history.
TmpDir_tried(self, last, outcome) ==
    [n |-> self.n + last,
     tried |-> self.tried \o
               [try \in 1..last |->
                   [n |-> self.n + try - 1, try |-> try,
                    outcome |-> IF try < last THEN "AlreadyExists" ELSE outcome,
                    returned |-> try = last]]]

\* create, returning on attempt number last with the outcome of its open.
TmpDir_create_returned(self, last, outcome, fs) ==
    IF outcome = "Ok"
    THEN [ok |-> TRUE, filename |-> tmp_filename(self.n + last - 1),
          tmp_dir |-> TmpDir_tried(self, last, outcome),
          fs |-> [PutFile(fs, tmp_filename(self.n + last - 1), UnfinishedFile)
                    EXCEPT !.created = CountOneMore(@, tmp_filename(self.n + last - 1))],
          err |-> "none"]
    ELSE [ok |-> FALSE, filename |-> NoFilename,
          tmp_dir |-> TmpDir_tried(self, last, outcome),
          fs |-> IF outcome = "Io" THEN Faulted(fs) ELSE fs,
          err |-> outcome]

TmpDir_create_at(self, last, fs, fault) ==
    TmpDir_create_returned(self, last, open_outcome(self, last, fs, fault), fs)

TmpDir_create(self, fs, fault) == TmpDir_create_at(self, last_try(self, fs), fs, fault)

(***************************************************************************)
(* write.rs: IndexFileWriter and write_index_to_tmp_file.                  *)
(***************************************************************************)
IndexFileWriter_new == [offset |-> HEADER_SIZE, main |-> <<>>, contents_buf |-> <<>>]

\* A write_main that does not count the bytes it writes.
write_main_NoCount(w, buf) == [w EXCEPT !.main = @ \o buf]

write_main(w, buf) ==
    [w EXCEPT !.main = @ \o buf, !.offset = @ + U32_BYTES * Len(buf)]

write_contents_entry(w, term, df, offset, nbytes) ==
    [w EXCEPT !.contents_buf =
        Append(@, [offset |-> offset, nbytes |-> nbytes, df |-> df, term |-> term])]

\* The file as it is on disk once finish has patched the header.
IndexFileWriter_finish(w) ==
    [header |-> w.offset, main |-> w.main, contents |-> w.contents_buf]

RECURSIVE write_terms(_, _, _)
write_terms(index_as_vec, map, writer) ==
    IF index_as_vec = <<>> THEN writer
    ELSE LET term  == Head(index_as_vec)
             hits  == map[term]
             df    == Len(hits)
             start == writer.offset
             w2    == write_main(writer, Flatten(hits))
             stop  == w2.offset
         IN  write_terms(Tail(index_as_vec), map,
                         write_contents_entry(w2, term, df, start, stop - start))

\* The bytes write_index_to_tmp_file puts in the file it creates.
IndexFileOf(index) ==
    IndexFileWriter_finish(
        write_terms(SortedTerms(DOMAIN index.map), index.map, IndexFileWriter_new))

\* write_index_to_tmp_file after tmp_dir.create() returned c.
write_index_created(c, index, fault) ==
    IF ~c.ok \/ fault.op = "write"
    THEN [ok |-> FALSE, filename |-> NoFilename, tmp_dir |-> c.tmp_dir,
          fs |-> IF c.ok THEN Faulted(c.fs) ELSE c.fs]
    ELSE [ok |-> TRUE, filename |-> c.filename, tmp_dir |-> c.tmp_dir,
          fs |-> Printed(PutFile(c.fs, c.filename, IndexFileOf(index)),
                         <<<<"wrote file ", c.filename>>>>)]

write_index_to_tmp_file(index, tmp_dir, fs, fault) ==
    write_index_created(TmpDir_create(tmp_dir, fs, fault), index, fault)

(***************************************************************************)
(* read.rs: IndexFileReader.  main and contents are what the two read      *)
(* heads have not read yet; next is the lookahead (length 0 or 1).         *)
(***************************************************************************)
read_entry(contents) ==
    IF contents = <<>> THEN <<>> ELSE <<Head(contents)>>

\* The contents head is seeked to the header value: it reads the Contents
\* region when the header is the offset at which that region starts.
open_and_delete(file) ==
    LET contents == IF file.header = HEADER_SIZE + U32_BYTES * Len(file.main)
                    THEN file.contents ELSE <<>>
    IN  [main |-> file.main,
         contents |-> IF contents = <<>> THEN <<>> ELSE Tail(contents),
         next |-> read_entry(contents)]

peek(s) == s.next

is_at(s, term) == s.next # <<>> /\ s.next[1].term = term

\* A move_entry_to that copies from the start of the Main region each time.
move_entry_to_NoAdvance(s, out) ==
    LET e == s.next[1]
        k == e.nbytes \div U32_BYTES
    IN  [reader |-> [main |-> s.main,
                     contents |-> IF s.contents = <<>> THEN <<>> ELSE Tail(s.contents),
                     next |-> read_entry(s.contents)],
         out |-> write_main(out, SubSeq(s.main, 1, k))]

\* Copies nbytes bytes of main to out, then reads the next entry.
move_entry_to(s, out) ==
    LET e == s.next[1]
        k == e.nbytes \div U32_BYTES
    IN  [reader |-> [main |-> SubSeq(s.main, k + 1, Len(s.main)),
                     contents |-> IF s.contents = <<>> THEN <<>> ELSE Tail(s.contents),
                     next |-> read_entry(s.contents)],
         out |-> write_main(out, SubSeq(s.main, 1, k))]

(***************************************************************************)
(* merge.rs: merge_streams.                                                *)
(***************************************************************************)
\* The scan of the lookaheads (the first for loop of the main loop):
\* the smallest term, and nbytes and df summed over the streams at it.
RECURSIVE scan_streams(_, _, _, _, _)
scan_streams(streams, i, term, nbytes, df) ==
    IF i > Len(streams) THEN [term |-> term, nbytes |-> nbytes, df |-> df]
    ELSE IF peek(streams[i]) = <<>>
         THEN scan_streams(streams, i + 1, term, nbytes, df)
         ELSE LET entry == peek(streams[i])[1]
              IN  IF term = <<>> \/ TermLess(entry.term, term[1])
                  THEN scan_streams(streams, i + 1, <<entry.term>>, entry.nbytes, entry.df)
                  ELSE IF entry.term = term[1]
                  THEN scan_streams(streams, i + 1, term,
                                    nbytes + entry.nbytes, df + entry.df)
                  ELSE scan_streams(streams, i + 1, term, nbytes, df)

\* A loop that never counts a stream as finished.
count_after_move_Keep(reader, count) == count

\* `if s.peek().is_none() { count -= 1; }` after s.move_entry_to(..).
count_after_move(reader, count) ==
    IF peek(reader) = <<>> THEN count - 1 ELSE count

\* The second for loop: every stream at term moves its entry to the output.
\* moved is the history of the calls of move_entry_to: the lookahead of the
\* reader at each call.
RECURSIVE move_streams(_, _, _, _, _)
move_streams(streams, i, output, term, count) ==
    IF i > Len(streams)
    THEN [streams |-> streams, output |-> output, count |-> count, moved |-> <<>>]
    ELSE IF is_at(streams[i], term)
         THEN LET m == move_entry_to(streams[i], output)
                  rest == move_streams([streams EXCEPT ![i] = m.reader], i + 1, m.out,
                                       term, count_after_move(m.reader, count))
              IN  [rest EXCEPT !.moved = <<peek(streams[i])>> \o @]
         ELSE move_streams(streams, i + 1, output, term, count)

\* What the test `count > 0` of the main loop sees: count and the lookahead
\* of every reader.
loop_test(streams, count) ==
    [count |-> count, lookaheads |-> [i \in DOMAIN streams |-> peek(streams[i])]]

\* The main loop.  tests is the history of the evaluations of `count > 0`
\* (one per iteration, and the one that leaves the loop); moved is the
\* history of the calls of move_entry_to.
RECURSIVE merge_loop(_, _, _, _)
merge_loop(streams, output, point, count) ==
    IF count > 0
    THEN LET sel == scan_streams(streams, 1, <<>>, 0, 0)
         IN  IF sel.term = <<>>
             THEN [ok |-> FALSE, err |-> "AlgorithmError",
                   streams |-> streams, output |-> output,
                   tests |-> <<loop_test(streams, count)>>, moved |-> <<>>]
             ELSE LET mv == move_streams(streams, 1, output, sel.term[1], count)
                      rest == merge_loop(mv.streams,
                                         write_contents_entry(mv.output, sel.term[1],
                                                              sel.df, point, sel.nbytes),
                                         point + sel.nbytes, mv.count)
                  IN  [rest EXCEPT !.tests = <<loop_test(streams, count)>> \o @,
                                   !.moved = mv.moved \o @]
    ELSE [ok |-> TRUE, err |-> "none", streams |-> streams, output |-> output,
          tests |-> <<loop_test(streams, count)>>, moved |-> <<>>]

\* merge_streams from `let mut point` on, after its inputs were opened.
merge_opened(inputs) ==
    LET streams == [i \in 1..Len(inputs) |-> open_and_delete(inputs[i])]
        count   == Cardinality({i \in 1..Len(streams) : peek(streams[i]) # <<>>})
    IN  merge_loop(streams, IndexFileWriter_new, 0, count)

\* The file merge_streams writes from the contents of its inputs.
MergedFileOf(inputs) == IndexFileWriter_finish(merge_opened(inputs).output)

\* The record of a call merge_streams(files, out): the names it was given,
\* how many of them it opened, the files it read (when it opened them all)
\* and the file it left in out.
MergeCalled(fs, files, opened, inputs, out, ok) ==
    [fs EXCEPT !.merges =
        Append(@, [files |-> files, opened |-> opened, inputs |-> inputs, out |-> out,
                   ok |-> ok, output |-> fs.tmp[out], caller |-> "add_file"])]

\* A merge_streams that opens all its inputs before it unlinks any.
open_failed_NoneUnlinked(fs, files, k) == fs

\* open_and_delete fails on input k: the collect stops there, with the
\* inputs before k opened and unlinked and the others untouched.
open_failed(fs, files, k) == Unlink(fs, SubSeq(files, 1, k - 1))

\* merge_streams(files, out): files are opened (and unlinked) in order, then
\* merged into the file `out` that the caller created.
merge_streams(files, out, fs, fault) ==
    LET missing == {i \in 1..Len(files) : files[i] \notin DOMAIN fs.tmp}
        failing == missing \cup
                   (IF fault.op = "open" /\ fault.at <= Len(files) THEN {fault.at} ELSE {})
    IN  IF failing # {}
        THEN LET k == CHOOSE i \in failing : \A j \in failing : i <= j
             IN  [ok |-> FALSE,
                  fs |-> MergeCalled(
                            open_failed(IF k \in missing THEN fs ELSE Faulted(fs),
                                        files, k),
                            files, k - 1, <<>>, out, FALSE)]
        ELSE IF fault.op = "merge"
        THEN [ok |-> FALSE,
              fs |-> MergeCalled(Unlink(Faulted(fs), files), files, Len(files), <<>>,
                                 out, FALSE)]
        ELSE [ok |-> TRUE,
              fs |-> MergeCalled(
                        PutFile(Unlink(fs, files), out,
                                MergedFileOf([i \in 1..Len(files) |-> fs.tmp[files[i]]])),
                        files, Len(files), [i \in 1..Len(files) |-> fs.tmp[files[i]]],
                        out, TRUE)]

\* The last call of merge_streams was made by merge_reversed.
ByMergeReversed(fs) == [fs EXCEPT !.merges[Len(fs.merges)].caller = "merge_reversed"]

\* merge_reversed after tmp_dir.create() returned c.
merge_reversed_into(c, reversed, m) ==
    IF ~m.ok
    THEN [ok |-> FALSE, filenames |-> <<>>, tmp_dir |-> c.tmp_dir,
          fs |-> ByMergeReversed(m.fs)]
    ELSE [ok |-> TRUE, filenames |-> <<c.filename>>, tmp_dir |-> c.tmp_dir,
          fs |-> ByMergeReversed(m.fs)]

merge_reversed_created(c, reversed, fault) ==
    IF ~c.ok
    THEN [ok |-> FALSE, filenames |-> reversed, tmp_dir |-> c.tmp_dir, fs |-> c.fs]
    ELSE merge_reversed_into(c, reversed,
                             merge_streams(reversed, c.filename, c.fs, fault))

\* A merge_reversed that forgets filenames.reverse().
merge_reversed_NoReverse(filenames, tmp_dir, fs, fault) ==
    merge_reversed_created(TmpDir_create(tmp_dir, fs, fault), filenames, fault)

merge_reversed(filenames, tmp_dir, fs, fault) ==
    merge_reversed_created(TmpDir_create(tmp_dir, fs, fault), Reverse(filenames), fault)

(***************************************************************************)
(* merge.rs: FileMerge = [tmp_dir, stacks].  Level k of the code is        *)
(* stacks[k + 1] here.                                                     *)
(***************************************************************************)
FileMerge_new == [tmp_dir |-> TmpDir_new, stacks |-> <<>>]

RECURSIVE add_file_loop(_, _, _, _, _)

\* An add_file that pushes the path of the merged file twice.
add_file_merged_Twice(self2, c, m, level, fault) ==
    IF ~m.ok
    THEN [ok |-> FALSE, self |-> self2, fs |-> m.fs]
    ELSE add_file_loop(add_file_loop(self2, c.filename, level + 1, m.fs, fault).self,
                       c.filename, level + 1, m.fs, fault)

\* add_file after merge_streams returned m for the full stack of `level`.
add_file_merged(self2, c, m, level, fault) ==
    IF ~m.ok
    THEN [ok |-> FALSE, self |-> self2, fs |-> m.fs]
    ELSE add_file_loop(self2, c.filename, level + 1, m.fs, fault)

\* An add_file that merges the full stack without taking it out of stacks.
add_file_created_NoSwap(pushed, c, level, fault) ==
    IF ~c.ok
    THEN [ok |-> FALSE, self |-> [tmp_dir |-> c.tmp_dir, stacks |-> pushed], fs |-> c.fs]
    ELSE add_file_merged([tmp_dir |-> c.tmp_dir, stacks |-> pushed],
                         c,
                         merge_streams(pushed[level + 1], c.filename, c.fs, fault),
                         level, fault)

\* add_file after tmp_dir.create() returned c for the full stack of `level`.
add_file_created(pushed, c, level, fault) ==
    IF ~c.ok
    THEN [ok |-> FALSE, self |-> [tmp_dir |-> c.tmp_dir, stacks |-> pushed], fs |-> c.fs]
    ELSE add_file_merged([tmp_dir |-> c.tmp_dir,
                          stacks |-> [pushed EXCEPT ![level + 1] = <<>>]],
                         c,
                         merge_streams(pushed[level + 1], c.filename, c.fs, fault),
                         level, fault)

\* An add_file that lets a stack reach NSTREAMS files before it merges.
add_file_pushed_OffByOne(self, pushed, level, fs, fault) ==
    IF Len(pushed[level + 1]) <= NSTREAMS
    THEN [ok |-> TRUE, self |-> [self EXCEPT !.stacks = pushed], fs |-> fs]
    ELSE add_file_created(pushed, TmpDir_create(self.tmp_dir, fs, fault), level, fault)

\* add_file once file is pushed on the stack of `level`.
add_file_pushed(self, pushed, level, fs, fault) ==
    IF Len(pushed[level + 1]) < NSTREAMS
    THEN [ok |-> TRUE, self |-> [self EXCEPT !.stacks = pushed], fs |-> fs]
    ELSE add_file_created(pushed, TmpDir_create(self.tmp_dir, fs, fault), level, fault)

\* An add_file that pushes every file on the stack of level 0.
add_file_loop_Bottom(self, file, level, fs, fault) ==
    add_file_pushed(self,
                    [(IF self.stacks = <<>> THEN <<<<>>>> ELSE self.stacks)
                        EXCEPT ![1] = Append(@, file)],
                    0, fs, fault)

add_file_loop(self, file, level, fs, fault) ==
    add_file_pushed(self,
                    [(IF level = Len(self.stacks)
                      THEN Append(self.stacks, <<>>) ELSE self.stacks)
                        EXCEPT ![level + 1] = Append(@, file)],
                    level, fs, fault)

add_file(self, file, fs, fault) == add_file_loop(self, file, 0, fs, fault)

\* The two nested for loops of finish over the files still to push.
RECURSIVE finish_drain(_, _, _, _, _)

finish_drain_merged(files, m, fault) ==
    IF ~m.ok THEN m
    ELSE finish_drain(Tail(files), m.filenames, m.tmp_dir, m.fs, fault)

finish_drain_pushed(files, pushed, tmp_dir, fs, fault) ==
    IF Len(pushed) = NSTREAMS
    THEN finish_drain_merged(files, merge_reversed(pushed, tmp_dir, fs, fault), fault)
    ELSE finish_drain(Tail(files), pushed, tmp_dir, fs, fault)

finish_drain(files, tmp, tmp_dir, fs, fault) ==
    IF files = <<>>
    THEN [ok |-> TRUE, filenames |-> tmp, tmp_dir |-> tmp_dir, fs |-> fs]
    ELSE finish_drain_pushed(files, Append(tmp, Head(files)), tmp_dir, fs, fault)

\* A finish that also merges when a single file is left.
finish_last_MergeOne(d, fault) ==
    IF d.ok /\ Len(d.filenames) >= 1
    THEN merge_reversed(d.filenames, d.tmp_dir, d.fs, fault)
    ELSE d

\* if tmp.len() > 1 { merge_reversed(&mut tmp, &mut self.tmp_dir)?; }
finish_last(d, fault) ==
    IF d.ok /\ Len(d.filenames) > 1
    THEN merge_reversed(d.filenames, d.tmp_dir, d.fs, fault)
    ELSE d

\* The rename of the last file, or the error when there is none: result is
\* "Ok", "MergeIo" (an I/O error of a merge or of the rename) or
\* "EmptyCorpus" (the io::Error "no documents were parsed or none contained
\* any words"); tmp_dir is self.tmp_dir as finish left it.
finish_rename(last, fault) ==
    IF ~last.ok THEN [result |-> "MergeIo", tmp_dir |-> last.tmp_dir, fs |-> last.fs]
    ELSE IF last.filenames = <<>>
    THEN [result |-> "EmptyCorpus", tmp_dir |-> last.tmp_dir, fs |-> last.fs]
    ELSE IF last.filenames[1] \notin DOMAIN last.fs.tmp
    THEN [result |-> "MergeIo", tmp_dir |-> last.tmp_dir, fs |-> last.fs]
    ELSE IF fault.op = "rename"
    THEN [result |-> "MergeIo", tmp_dir |-> last.tmp_dir, fs |-> Faulted(last.fs)]
    ELSE [result |-> "Ok", tmp_dir |-> last.tmp_dir,
          fs |-> [RemoveFiles(last.fs, {last.filenames[1]})
                    EXCEPT !.index = <<last.fs.tmp[last.filenames[1]]>>,
                           !.renamed = CountOneMore(@, last.filenames[1])]]

\* A finish that takes each stack from its first file to its last.
finish_files_NoRev(self) == Flatten(self.stacks)

\* The files of the stacks in the order finish pushes them: level by level,
\* each stack from its last file to its first (stack.into_iter().rev()).
finish_files(self) == Flatten([l \in 1..Len(self.stacks) |-> Reverse(self.stacks[l])])

FileMerge_finish(self, fs, fault) ==
    finish_rename(
        finish_last(finish_drain(finish_files(self), <<>>, self.tmp_dir, fs, fault), fault),
        fault)

(***************************************************************************)
(* Inputs.  A document of the input list is a path: reading it yields its  *)
(* text, or fails (File::open or read_to_string returns an error).         *)
(***************************************************************************)
Readable(text) == [readable |-> TRUE, text |-> text]

Unreadable == [readable |-> FALSE, text |-> <<>>]

\* "", " ", "a", "a b", "B a"
SomeDocuments ==
    {Unreadable, Readable(<<>>), Readable(<<32>>), Readable(<<97>>),
     Readable(<<97, 32, 98>>), Readable(<<66, 32, 97>>)}

\* "a b", "c", "B a", "a-a c"
Pattern ==
    <<Readable(<<97, 32, 98>>), Readable(<<99>>), Readable(<<66, 32, 97>>),
      Readable(<<97, 45, 97, 32, 99>>)>>

Periodic(n, shift) ==
    [i \in 1..n |-> Pattern[((i - 1 + shift) % Len(Pattern)) + 1]]

ShortLists ==
    UNION {[1..n -> SomeDocuments] : n \in 0..MaxShort}

\* n documents "a b": each makes the accumulator large on its own.
Uniform(n) == [i \in 1..n |-> Readable(<<97, 32, 98>>)]

LongLists ==
    {Periodic(MaxDocs, shift) : shift \in 0..1} \cup
    {Append(Periodic(MaxDocs, 0), Unreadable)} \cup
    {Uniform(MaxDocs)}

InputLists == ShortLists \cup LongLists

FairLists ==
    ShortLists \cup
    {Periodic(MaxFair, 0), Append(Periodic(MaxFair, 0), Unreadable)}

(***************************************************************************)
(* main.rs: run_single_threaded.  Its locals are the record                *)
(*   [doc_id, accumulated_index, merge, tmp_dir, fs, handed, result]       *)
(* where doc_id counts the documents consumed, handed is the history of    *)
(* the files given to FileMerge::add_file (their contents) and result is   *)
(* "running" until the function returns.                                   *)
(***************************************************************************)
\* merge.add_file(file)? returned a for the file that w names.
flush_added(s, w, a) ==
    [s EXCEPT !.tmp_dir = w.tmp_dir, !.fs = a.fs, !.merge = a.self,
              !.handed = Append(@, w.fs.tmp[w.filename]),
              !.accumulated_index = InMemoryIndex_new,
              !.result = IF a.ok THEN "running" ELSE "MergeIo"]

\* write_index_to_tmp_file(accumulated_index, &mut tmp_dir)? returned w.
flush_written(s, w, fault) ==
    IF ~w.ok
    THEN [s EXCEPT !.tmp_dir = w.tmp_dir, !.fs = w.fs, !.result = "WriterIo"]
    ELSE flush_added(s, w, add_file(s.merge, w.filename, w.fs, fault))

\* Write the accumulator to a temporary file and hand it to merge.add_file.
flush_to_merge(s, index, fault) ==
    flush_written(s, write_index_to_tmp_file(index, s.tmp_dir, s.fs, fault), fault)

\* One iteration of the for loop over documents.
single_threaded_iteration(s, documents, fault) ==
    LET document == documents[s.doc_id + 1]
    IN  IF ~document.readable
        THEN [s EXCEPT !.result = "ReaderIo"]
        ELSE LET index == from_single_document(s.doc_id, document.text)
                 acc   == InMemoryIndex_merge(s.accumulated_index, index)
                 s2    == [s EXCEPT !.doc_id = @ + 1, !.accumulated_index = acc,
                                    !.fs = Printed(@, from_single_document_prints(
                                                          s.doc_id, document.text))]
             IN  IF is_large(acc) THEN flush_to_merge(s2, acc, fault) ELSE s2

\* merge.finish(), the last statement of run_single_threaded.  finish takes
\* self by value: the stacks are moved out of the FileMerge.
single_threaded_return(s2, fault) ==
    IF s2.result # "running" THEN s2
    ELSE [s2 EXCEPT !.fs = FileMerge_finish(s2.merge, s2.fs, fault).fs,
                    !.merge = [tmp_dir |-> FileMerge_finish(s2.merge, s2.fs, fault).tmp_dir,
                               stacks |-> <<>>],
                    !.result = FileMerge_finish(s2.merge, s2.fs, fault).result]

\* After the loop: flush what is left, then merge.finish().
single_threaded_finish(s, fault) ==
    single_threaded_return(
        IF ~is_empty(s.accumulated_index)
        THEN flush_to_merge(s, s.accumulated_index, fault) ELSE s,
        fault)

single_threaded_start ==
    [doc_id |-> 0, accumulated_index |-> InMemoryIndex_new, merge |-> FileMerge_new,
     tmp_dir |-> TmpDir_new, fs |-> EmptyDir, handed |-> <<>>, result |-> "running"]

\* run_single_threaded when no file operation fails.
RECURSIVE run_single_threaded_from(_, _)
run_single_threaded_from(s, documents) ==
    IF s.result # "running" THEN s
    ELSE IF s.doc_id < Len(documents)
         THEN run_single_threaded_from(
                  single_threaded_iteration(s, documents, NoFault), documents)
         ELSE single_threaded_finish(s, NoFault)

run_single_threaded(documents) ==
    run_single_threaded_from(single_threaded_start, documents)

(***************************************************************************)
(* State.                                                                  *)
(*   documents, single_threaded   the arguments of run                     *)
(*   fs                           the output directory                     *)
(*   doc_id, accumulated_index, merge, tmp_dir                             *)
(*        in single-threaded mode the locals of run_single_threaded; in    *)
(*        pipelined mode the counter of the indexing thread, the           *)
(*        accumulator of the in-memory merge thread, the FileMerge of      *)
(*        merge_index_files and the TmpDir of the index writer thread      *)
(*   next_document                the file reader thread's position        *)
(*   texts, pints, gallons, files the four channels (unbounded FIFO)       *)
(*   h1, h2, h3, h4               the threads: "idle", "running", or the   *)
(*        value the thread returned ("Ok", "ReaderIo", "WriterIo")         *)
(*   main_pc                      the calling thread: "running" (single-   *)
(*        threaded build), "merging" (in merge_index_files), "joining",    *)
(*        "returned"                                                       *)
(*   result                       what merge_index_files returned          *)
(*   ret                          what run returned                        *)
(* History.                                                                *)
(*   handed       contents of the files given to FileMerge::add_file       *)
(*   assigned     for every text the indexing thread numbered: src, its    *)
(*                position in documents (from 1), and doc_id, its number   *)
(*   errlog       the stages that failed, in the order they failed         *)
(*   send_failed  the stages that had a send fail                          *)
(***************************************************************************)
VARIABLES documents, single_threaded, fs, doc_id, accumulated_index, merge,
          tmp_dir, next_document, texts, pints, gallons, files,
          h1, h2, h3, h4, main_pc, result, ret,
          handed, assigned, errlog, send_failed, exit_status

vars == <<documents, single_threaded, fs, doc_id, accumulated_index, merge,
          tmp_dir, next_document, texts, pints, gallons, files,
          h1, h2, h3, h4, main_pc, result, ret,
          handed, assigned, errlog, send_failed, exit_status>>

inputs == <<documents, single_threaded>>
channels == <<texts, pints, gallons, files>>
threads == <<h1, h2, h3, h4>>
process == <<exit_status>>

\* The output directory with the temporary files an earlier build that was
\* aborted (or a build running at another time) has left in it: the names
\* of the counter values 1 .. count.
Leftover(count) ==
    [EmptyDir EXCEPT !.tmp = [name \in {tmp_filename(n) : n \in 1..count} |->
                                 UnfinishedFile]]

\* The state when run is called on one of `lists` in one of `dirs`.
InitIn(lists, dirs) ==
    /\ documents \in lists
    /\ single_threaded \in BOOLEAN
    /\ fs \in dirs
    /\ doc_id = 0
    /\ accumulated_index = InMemoryIndex_new
    /\ merge = FileMerge_new
    /\ tmp_dir = TmpDir_new
    /\ next_document = 1
    /\ texts = <<>> /\ pints = <<>> /\ gallons = <<>> /\ files = <<>>
    /\ h1 = IF single_threaded THEN "idle" ELSE "running"
    /\ h2 = IF single_threaded THEN "idle" ELSE "running"
    /\ h3 = IF single_threaded THEN "idle" ELSE "running"
    /\ h4 = IF single_threaded THEN "idle" ELSE "running"
    /\ main_pc = IF single_threaded THEN "running" ELSE "merging"
    /\ result = "none"
    /\ ret = "none"
    /\ handed = <<>>
    /\ assigned = <<>>
    /\ errlog = <<>>
    /\ send_failed = {}
    /\ exit_status = <<>>

\* A run on one of `lists` in an empty output directory.
InitWith(lists) == InitIn(lists, {EmptyDir})

Init == InitWith(InputLists)

\* The input lists of the runs checked for termination and for waiting.
FairInit == InitWith(FairLists)

(***************************************************************************)
(* Single-threaded mode.                                                   *)
(***************************************************************************)
Locals ==
    [doc_id |-> doc_id, accumulated_index |-> accumulated_index, merge |-> merge,
     tmp_dir |-> tmp_dir, fs |-> fs, handed |-> handed, result |-> "running"]

SetLocals(s) ==
    /\ doc_id' = s.doc_id
    /\ accumulated_index' = s.accumulated_index
    /\ merge' = s.merge
    /\ tmp_dir' = s.tmp_dir
    /\ fs' = s.fs
    /\ handed' = s.handed
    /\ IF s.result = "running"
       THEN UNCHANGED <<main_pc, ret, errlog>>
       ELSE /\ main_pc' = "returned"
            /\ ret' = s.result
            /\ errlog' = IF s.result = "Ok" THEN errlog ELSE Append(errlog, "main")
    /\ UNCHANGED <<inputs, process, next_document, channels, threads, result, assigned,
                   send_failed>>

SingleThreadedIteration ==
    /\ single_threaded /\ main_pc = "running"
    /\ doc_id < Len(documents)
    /\ \E fault \in Faults :
           SetLocals(single_threaded_iteration(Locals, documents, fault))

SingleThreadedFinish ==
    /\ single_threaded /\ main_pc = "running"
    /\ doc_id = Len(documents)
    /\ \E fault \in Faults : SetLocals(single_threaded_finish(Locals, fault))

(***************************************************************************)
(* Pipelined mode: std::sync::mpsc channels.  A send fails when the        *)
(* receiver has been dropped, which happens when the receiving thread      *)
(* leaves its loop; a receive on an empty channel blocks until the sender  *)
(* is dropped, which happens when the sending thread exits.  What is still *)
(* queued when the receiver is dropped is dropped with it.                 *)
(***************************************************************************)
\* A channel that delivers the newest value first.
send_Lifo(channel, value) == <<value>> \o channel

send(channel, value) == Append(channel, value)

\* The capacity a bounded channel (sync_channel) would have.
QueueCapacity == 4

\* A bounded channel: a send waits while the queue is full.
can_send_Bounded(channel) == Len(channel) < QueueCapacity

\* channel() is the asynchronous, unbounded channel: a send never waits.
can_send(channel) == TRUE

\* A thread that drops its channel ends only when it returns without error.
Exited_OnlyOnSuccess(h) == h \in {"idle", "Ok", "done"}

\* A thread that has returned has dropped its sender and its receiver.
Exited(h) == h # "running"

\* A stage that returns the failed send as its error.
break_result_SendError == "SendError"

\* `if sender.send(..).is_err() { break; }` and then `Ok(())`.
break_result == "Ok"

\* A merge thread that sends its accumulator whenever it holds anything.
should_flush_NonEmpty(acc) == ~is_empty(acc)

\* The in-memory merge thread sends its accumulator when it is large.
should_flush(acc) == is_large(acc)

\* start_file_reader_thread: one iteration of the for loop, or its end.
FileReaderThread ==
    /\ h1 = "running"
    /\ IF next_document > Len(documents)
       THEN /\ h1' = "Ok"
            /\ UNCHANGED <<next_document, texts, errlog, send_failed>>
       ELSE IF ~documents[next_document].readable
       THEN /\ h1' = "ReaderIo"
            /\ errlog' = Append(errlog, "reader")
            /\ UNCHANGED <<next_document, texts, send_failed>>
       ELSE IF Exited(h2)
       THEN /\ h1' = break_result
            /\ send_failed' = send_failed \cup {"reader"}
            /\ UNCHANGED <<next_document, texts, errlog>>
       ELSE /\ can_send(texts)
            /\ texts' = send(texts, [text |-> documents[next_document].text,
                                     src |-> next_document])
            /\ next_document' = next_document + 1
            /\ UNCHANGED <<h1, errlog, send_failed>>
    /\ UNCHANGED <<inputs, process, fs, doc_id, accumulated_index, merge, tmp_dir,
                   pints, gallons, files, h2, h3, h4, main_pc, result, ret,
                   handed, assigned>>

\* start_file_indexing_thread: texts.into_iter().enumerate().
FileIndexingThread ==
    /\ h2 = "running"
    /\ IF texts = <<>>
       THEN /\ Exited(h1)
            /\ h2' = "done"
            /\ UNCHANGED <<texts, pints, doc_id, assigned, send_failed, fs>>
       ELSE \E index \in {from_single_document(doc_id, Head(texts).text)} :
                /\ fs' = Printed(fs, from_single_document_prints(doc_id, Head(texts).text))
                /\ IF Exited(h3)
                   THEN /\ h2' = "done"
                        /\ texts' = <<>>
                        /\ send_failed' = send_failed \cup {"indexer"}
                        /\ UNCHANGED <<pints, doc_id, assigned>>
                   ELSE /\ can_send(pints)
                        /\ pints' = send(pints, index)
                        /\ texts' = Tail(texts)
                        /\ doc_id' = doc_id + 1
                        /\ assigned' = Append(assigned, [src |-> Head(texts).src,
                                                         doc_id |-> doc_id])
                        /\ UNCHANGED <<h2, send_failed>>
    /\ UNCHANGED <<inputs, process, accumulated_index, merge, tmp_dir, next_document,
                   gallons, files, h1, h3, h4, main_pc, result, ret, handed, errlog>>

\* start_in_memory_merge_thread.
InMemoryMergeThread ==
    /\ h3 = "running"
    /\ IF pints = <<>>
       THEN /\ Exited(h2)
            /\ h3' = "done"
            /\ accumulated_index' = InMemoryIndex_new
            /\ IF is_empty(accumulated_index)
               THEN UNCHANGED <<gallons, send_failed>>
               ELSE IF Exited(h4)
               THEN /\ send_failed' = send_failed \cup {"merger"}
                    /\ UNCHANGED gallons
               ELSE /\ can_send(gallons)
                    /\ gallons' = send(gallons, accumulated_index)
                    /\ UNCHANGED send_failed
            /\ UNCHANGED pints
       ELSE \E acc \in {InMemoryIndex_merge(accumulated_index, Head(pints))} :
                IF ~should_flush(acc)
                THEN /\ accumulated_index' = acc
                     /\ pints' = Tail(pints)
                     /\ UNCHANGED <<h3, gallons, send_failed>>
                ELSE IF Exited(h4)
                THEN /\ h3' = "done"
                     /\ pints' = <<>>
                     /\ accumulated_index' = InMemoryIndex_new
                     /\ send_failed' = send_failed \cup {"merger"}
                     /\ UNCHANGED gallons
                ELSE /\ can_send(gallons)
                     /\ gallons' = send(gallons, acc)
                     /\ accumulated_index' = InMemoryIndex_new
                     /\ pints' = Tail(pints)
                     /\ UNCHANGED <<h3, send_failed>>
    /\ UNCHANGED <<inputs, process, fs, doc_id, merge, tmp_dir, next_document, texts, files,
                   h1, h2, h4, main_pc, result, ret, handed, assigned, errlog>>

\* start_index_writer_thread.
IndexWriterThread ==
    /\ h4 = "running"
    /\ IF gallons = <<>>
       THEN /\ Exited(h3)
            /\ h4' = "Ok"
            /\ UNCHANGED <<gallons, files, fs, tmp_dir, errlog, send_failed>>
       ELSE \E fault \in WriterFaults :
              \E w \in {write_index_to_tmp_file(Head(gallons), tmp_dir, fs, fault)} :
                  /\ fs' = w.fs
                  /\ tmp_dir' = w.tmp_dir
                  /\ IF ~w.ok
                     THEN /\ h4' = "WriterIo"
                          /\ gallons' = <<>>
                          /\ errlog' = Append(errlog, "writer")
                          /\ UNCHANGED <<files, send_failed>>
                     ELSE IF main_pc # "merging"
                     THEN /\ h4' = break_result
                          /\ gallons' = <<>>
                          /\ send_failed' = send_failed \cup {"writer"}
                          /\ UNCHANGED <<files, errlog>>
                     ELSE /\ can_send(files)
                          /\ files' = send(files, w.filename)
                          /\ gallons' = Tail(gallons)
                          /\ UNCHANGED <<h4, errlog, send_failed>>
    /\ UNCHANGED <<inputs, process, doc_id, accumulated_index, merge, next_document, texts,
                   pints, h1, h2, h3, main_pc, result, ret, handed, assigned>>

\* merge_index_files, on the calling thread: one iteration of the for loop
\* over files, or merge.finish() when the channel is closed.
MergeIndexFiles ==
    /\ main_pc = "merging"
    /\ IF files = <<>>
       THEN /\ Exited(h4)
            /\ \E fault \in MergeFaults :
                 \E d \in {finish_drain(finish_files(merge), <<>>, merge.tmp_dir, fs, fault)} :
                 \E last \in {finish_last(d, fault)} :
                 \E f \in {finish_rename(last, fault)} :
                     /\ fs' = f.fs
                     /\ merge' = [tmp_dir |-> f.tmp_dir, stacks |-> <<>>]
                     /\ result' = f.result
                     /\ errlog' = IF f.result = "Ok" THEN errlog
                                  ELSE Append(errlog, "main")
            /\ main_pc' = "joining"
            /\ UNCHANGED <<files, handed>>
       ELSE \E fault \in MergeFaults :
              \E a \in {add_file(merge, Head(files), fs, fault)} :
                  /\ fs' = a.fs
                  /\ merge' = a.self
                  /\ handed' = Append(handed, fs.tmp[Head(files)])
                  /\ IF a.ok
                     THEN /\ files' = Tail(files)
                          /\ UNCHANGED <<main_pc, result, errlog>>
                     ELSE /\ files' = <<>>
                          /\ main_pc' = "joining"
                          /\ result' = "MergeIo"
                          /\ errlog' = Append(errlog, "main")
    /\ UNCHANGED <<inputs, process, doc_id, accumulated_index, tmp_dir, next_document, texts,
                   pints, gallons, threads, ret, assigned, send_failed>>

\* The first error in the order the merger, the writer, the reader.
pipeline_result_MergerFirst(r1, r4, res) ==
    IF res # "Ok" THEN res ELSE IF r4 # "Ok" THEN r4 ELSE r1

\* What run_pipeline returns from the three results: r1?; r4?; result.
pipeline_result(r1, r4, res) ==
    IF r1 # "Ok" THEN r1 ELSE IF r4 # "Ok" THEN r4 ELSE res

\* run_pipeline after merge_index_files: the four joins, then the result.
JoinThreads ==
    /\ main_pc = "joining"
    /\ Exited(h1) /\ Exited(h2) /\ Exited(h3) /\ Exited(h4)
    /\ ret' = pipeline_result(h1, h4, result)
    /\ main_pc' = "returned"
    /\ UNCHANGED <<inputs, process, fs, doc_id, accumulated_index, merge, tmp_dir,
                   next_document, channels, threads, result, handed, assigned,
                   errlog, send_failed>>

\* What main prints on standard output for the result of run.
main_prints(r) == IF r = "Ok" THEN <<>> ELSE <<<<"error: ", r>>>>

\* The status the process ends with: main returns () in both arms of its
\* match, and a main that returns ends the process with status 0.
main_exit_status(r) == 0

\* fn main, once run has returned.
Main ==
    /\ main_pc = "returned"
    /\ exit_status = <<>>
    /\ fs' = Printed(fs, main_prints(ret))
    /\ exit_status' = <<main_exit_status(ret)>>
    /\ UNCHANGED <<inputs, doc_id, accumulated_index, merge, tmp_dir,
                   next_document, channels, threads, main_pc, result, ret,
                   handed, assigned, errlog, send_failed>>

Next ==
    \/ SingleThreadedIteration
    \/ SingleThreadedFinish
    \/ FileReaderThread
    \/ FileIndexingThread
    \/ InMemoryMergeThread
    \/ IndexWriterThread
    \/ MergeIndexFiles
    \/ JoinThreads
    \/ Main

Spec == Init /\ [][Next]_vars

\* The four spawned threads and the calling thread of run_pipeline are
\* scheduled fairly, and file I/O terminates.
FairSpec ==
    /\ FairInit /\ [][Next]_vars
    /\ WF_vars(FileReaderThread)
    /\ WF_vars(FileIndexingThread)
    /\ WF_vars(InMemoryMergeThread)
    /\ WF_vars(IndexWriterThread)
    /\ WF_vars(MergeIndexFiles)
    /\ WF_vars(JoinThreads)
    /\ WF_vars(Main)

(***************************************************************************)
(* The runs of the pipeline in which the stages downstream are slow: the   *)
(* input is TRY_LIMIT + 1 documents that each fill the accumulator, every      *)
(* thread is scheduled only once the one before it has exited (the         *)
(* channels are unbounded, so every send returns at once), and no I/O      *)
(* fault strikes.  Every step is a step of Next.                           *)
(***************************************************************************)
BacklogInit == InitWith({Uniform(TRY_LIMIT + 1)}) /\ ~single_threaded

BacklogNext ==
    \/ FileReaderThread
    \/ Exited(h1) /\ FileIndexingThread
    \/ Exited(h2) /\ InMemoryMergeThread
    \/ Exited(h3) /\ IndexWriterThread /\ ~fs'.faulted
    \/ Exited(h4) /\ MergeIndexFiles /\ ~fs'.faulted
    \/ JoinThreads
    \/ Main

BacklogSpec == BacklogInit /\ [][BacklogNext]_vars

(***************************************************************************)
(* The runs on a short input list in an output directory that holds        *)
(* leftover temporary files, as many as the retry limit of TmpDir::create  *)
(* or one less or one more.                                                *)
(***************************************************************************)
LeftoverCounts == {TRY_LIMIT - 1, TRY_LIMIT, TRY_LIMIT + 1}

LeftoverInit == InitIn(ShortLists, {Leftover(count) : count \in LeftoverCounts})

LeftoverSpec == LeftoverInit /\ [][Next]_vars

(***************************************************************************)
(* The single-threaded runs on lists of up to MaxDrain documents that each *)
(* fill the accumulator (with 2 * NSTREAMS + 7 files added, finish merges  *)
(* inside its loop and once more after it) and on one of NSTREAMS^2 + 1    *)
(* such documents (the first file of level 2, and one file after it).      *)
(***************************************************************************)
MaxDrain == 23

DrainLists == {Uniform(n) : n \in 2..MaxDrain} \cup {Uniform(NSTREAMS * NSTREAMS + 1)}

DrainInit == InitWith(DrainLists) /\ single_threaded

DrainNext ==
    \/ SingleThreadedIteration
    \/ SingleThreadedFinish
    \/ Main

DrainSpec == DrainInit /\ [][DrainNext]_vars

Returned == main_pc = "returned"

TypeOK ==
    /\ h1 \in {"idle", "running", "Ok", "ReaderIo"}
    /\ h2 \in {"idle", "running", "done"}
    /\ h3 \in {"idle", "running", "done"}
    /\ h4 \in {"idle", "running", "Ok", "WriterIo"}
    /\ main_pc \in {"running", "merging", "joining", "returned"}
    /\ result \in {"none", "Ok", "MergeIo", "EmptyCorpus"}
    /\ ret \in {"none", "Ok", "ReaderIo", "WriterIo", "MergeIo", "EmptyCorpus"}
    /\ exit_status \in {<<>>, <<0>>}

(***************************************************************************)
(* Reading an index file back, for the properties below.  The postings of  *)
(* entry i are read the way IndexFileReader reads them: sequentially,      *)
(* nbytes at a time.                                                       *)
(***************************************************************************)
RECURSIVE SumNbytes(_, _)
SumNbytes(contents, i) ==
    IF i = 0 THEN 0 ELSE contents[i].nbytes + SumNbytes(contents, i - 1)

\* The words of the Main region that belong to entry i.
RegionOf(file, i) ==
    SubSeq(file.main,
           SumNbytes(file.contents, i - 1) \div U32_BYTES + 1,
           SumNbytes(file.contents, i) \div U32_BYTES)

\* The document ids of the postings of entry i, in file order.
PostingDocs(file, i) ==
    LET docs == SelectSeq(RegionOf(file, i), LAMBDA w : w[1] = "doc")
    IN  [k \in 1..Len(docs) |-> docs[k][2]]

\* The terms of document number d (counted from 0) of the input list.
TermsOfDocument(d) == Range(tokenize(to_lowercase(documents[d + 1].text)))

AllTerms == UNION {TermsOfDocument(d) : d \in 0..(Len(documents) - 1)}

Succeeded == main_pc = "returned" /\ ret = "Ok"

Failed == main_pc = "returned" /\ ret # "Ok"

IndexDat == fs.index[1]

(***************************************************************************)
(* C1.  The final index.dat is written only on success: a run in which the *)
(* build returns an error has renamed no file to index.dat (single-        *)
(* threaded and pipelined mode).  The pipelined build violates it: the     *)
(* file merger finishes with what reached it when a stage upstream failed. *)
(***************************************************************************)
C1_IndexOnlyOnSuccess == Failed => fs.index = <<>>

\* The single-threaded build does keep it.
C1_SingleThreadedIndexOnlyOnSuccess ==
    (single_threaded /\ Failed) => fs.index = <<>>

(***************************************************************************)
(* C2.  With the same input list and no I/O failure, the pipelined build   *)
(* hands FileMerge the same sequence of flushed indexes as the single-     *)
(* threaded build (same flush boundaries, same document ids) and leaves    *)
(* the same index.dat, whatever the interleaving of the threads.  (A run   *)
(* without I/O failure returns Ok, or the empty-corpus error.)             *)
(***************************************************************************)
C2_ModesAgree ==
    (main_pc = "returned" /\ ret \in {"Ok", "EmptyCorpus"}) =>
        LET s == run_single_threaded(documents)
        IN  /\ ret = s.result
            /\ handed = s.handed
            /\ fs.index = s.fs.index

C2_Witness ==
    /\ ~single_threaded /\ Succeeded
    /\ Len(handed) > NSTREAMS
    /\ Len(handed) < Len(documents)

(***************************************************************************)
(* C3.  On a successful build index.dat has exactly one entry for each     *)
(* term of the inputs, and the postings of a term are those of exactly the *)
(* documents that contain it, one posting each.                            *)
(***************************************************************************)
C3_ExactPostings ==
    Succeeded =>
        /\ Len(fs.index) = 1
        /\ {IndexDat.contents[i].term : i \in DOMAIN IndexDat.contents} = AllTerms
        /\ \A i, j \in DOMAIN IndexDat.contents :
               IndexDat.contents[i].term = IndexDat.contents[j].term => i = j
        /\ \A i \in DOMAIN IndexDat.contents :
               \A d \in 0..(Len(documents) - 1) :
                   Cardinality({k \in DOMAIN PostingDocs(IndexDat, i) :
                                  PostingDocs(IndexDat, i)[k] = d})
                     = IF IndexDat.contents[i].term \in TermsOfDocument(d) THEN 1 ELSE 0
        /\ \A i \in DOMAIN IndexDat.contents :
               \A k \in DOMAIN PostingDocs(IndexDat, i) :
                   PostingDocs(IndexDat, i)[k] \in 0..(Len(documents) - 1)

\* A successful build with in-memory merges, a cascade merge in add_file and
\* a residual merge in finish.
C3_Witness ==
    /\ Succeeded
    /\ Len(handed) > NSTREAMS
    /\ Len(handed) < Len(documents)
    /\ \E k \in DOMAIN fs.merges :
           fs.merges[k].ok /\ fs.merges[k].caller = "add_file"
    /\ \E k \in DOMAIN fs.merges :
           fs.merges[k].ok /\ fs.merges[k].caller = "merge_reversed"

(***************************************************************************)
(* C4.  In the final index.dat the postings of every term are in strictly  *)
(* increasing order of document id.                                        *)
(***************************************************************************)
C4_PostingsAscending ==
    Succeeded =>
        \A i \in DOMAIN IndexDat.contents :
            \A k \in 1..(Len(PostingDocs(IndexDat, i)) - 1) :
                PostingDocs(IndexDat, i)[k] < PostingDocs(IndexDat, i)[k + 1]

\* A final file built by a cascade merge and a residual merge, with a term
\* that has postings from both.
C4_Witness ==
    /\ Succeeded
    /\ \E k \in DOMAIN fs.merges :
           fs.merges[k].ok /\ fs.merges[k].caller = "add_file"
    /\ \E k \in DOMAIN fs.merges :
           fs.merges[k].ok /\ fs.merges[k].caller = "merge_reversed"
    /\ \E i \in DOMAIN IndexDat.contents : Len(PostingDocs(IndexDat, i)) > NSTREAMS

(***************************************************************************)
(* C5.  In pipelined mode the document id the indexer thread gives a text  *)
(* is the 0-based position of that document in the input list, whatever    *)
(* the interleaving of the reader and the indexer.                         *)
(***************************************************************************)
C5_DocIdIsListPosition ==
    \A i \in DOMAIN assigned : assigned[i].doc_id = assigned[i].src - 1

\* The indexer has numbered several texts while others were still queued.
C5_Witness ==
    /\ ~single_threaded
    /\ Len(assigned) > 2
    /\ Len(texts) > 2

(***************************************************************************)
(* C6.  run_pipeline returns by stage precedence, not by time: the error   *)
(* of the reader if the reader failed, otherwise the error of the writer   *)
(* if the writer failed, otherwise the result of the file merger.  The     *)
(* indexer and the in-memory merger never fail.                            *)
(***************************************************************************)
C6_ErrorPrecedence ==
    /\ h2 \in {"idle", "running", "done"}
    /\ h3 \in {"idle", "running", "done"}
    /\ (~single_threaded /\ main_pc = "returned") =>
          IF "reader" \in Range(errlog) THEN ret = "ReaderIo"
          ELSE IF "writer" \in Range(errlog) THEN ret = "WriterIo"
          ELSE IF "main" \in Range(errlog)
               THEN ret = result /\ result \in {"MergeIo", "EmptyCorpus"}
          ELSE ret = "Ok" /\ result = "Ok"

\* The merger failed first, then the writer, then the reader.
C6_Witness ==
    /\ ~single_threaded /\ main_pc = "returned"
    /\ errlog = <<"main", "writer", "reader">>
    /\ ret = "ReaderIo"

(***************************************************************************)
(* C7.  A stage whose send failed because the stage downstream had exited  *)
(* ends with success: the reader and the writer return Ok, the indexer and *)
(* the in-memory merger return; the failed send is no stage's error.       *)
(***************************************************************************)
C7_FailedSendIsSuccess ==
    /\ "reader" \in send_failed => h1 = "Ok" /\ "reader" \notin Range(errlog)
    /\ "indexer" \in send_failed => h2 = "done"
    /\ "merger" \in send_failed => h3 = "done"
    /\ "writer" \in send_failed => h4 = "Ok" /\ "writer" \notin Range(errlog)

\* All four stages have had a send fail.
C7_Witness ==
    /\ send_failed = {"reader", "indexer", "merger", "writer"}
    /\ main_pc = "returned"

C9_QueuesBounded ==
    /\ Len(texts) <= QueueCapacity
    /\ Len(pints) <= QueueCapacity
    /\ Len(gallons) <= QueueCapacity
    /\ Len(files) <= QueueCapacity

(***************************************************************************)
(* C9, amended.  The queues between the stages are unbounded FIFO queues:  *)
(* a stage with something to send is never made to wait by the length of   *)
(* its output queue, and the number of items waiting in a queue is limited *)
(* only by the number of input documents.                                  *)
(***************************************************************************)
C9_QueuesUnbounded ==
    /\ Len(texts) <= Len(documents)
    /\ Len(pints) <= Len(documents)
    /\ Len(gallons) <= Len(documents)
    /\ Len(files) <= Len(documents)
    /\ h1 = "running" => ENABLED FileReaderThread
    /\ (h2 = "running" /\ texts # <<>>) => ENABLED FileIndexingThread
    /\ (h3 = "running" /\ pints # <<>>) => ENABLED InMemoryMergeThread
    /\ (h4 = "running" /\ gallons # <<>>) => ENABLED IndexWriterThread

\* Every document of a list longer than the capacity is waiting in the first
\* queue.
C9_Witness ==
    /\ Len(texts) = Len(documents)
    /\ Len(texts) > QueueCapacity

(***************************************************************************)
(* C10.  Empty corpus: when the input list is empty or no document has an  *)
(* alphanumeric token, no temporary index file is written, FileMerge is    *)
(* handed no file, finish returns the empty-corpus error and there is no   *)
(* index.dat, in both modes.                                               *)
(***************************************************************************)
NoTokens ==
    \A i \in DOMAIN documents :
        documents[i].readable /\ tokenize(to_lowercase(documents[i].text)) = <<>>

C10_EmptyCorpus ==
    NoTokens =>
        /\ fs.tmp = NoFiles
        /\ files = <<>>
        /\ handed = <<>>
        /\ merge.stacks = <<>>
        /\ fs.index = <<>>
        /\ result \in {"none", "EmptyCorpus"}
        /\ main_pc = "returned" => ret = "EmptyCorpus"

\* The pipelined build of two documents without a token has returned.
C10_Witness ==
    /\ ~single_threaded /\ main_pc = "returned"
    /\ Len(documents) = 2 /\ documents[2].text # <<>>
    /\ NoTokens
    /\ ret = "EmptyCorpus"

\* The single-threaded build of two documents without a token has returned.
C10_SingleThreadedWitness ==
    /\ single_threaded /\ main_pc = "returned"
    /\ Len(documents) = 2 /\ documents[2].text # <<>>
    /\ NoTokens
    /\ ret = "EmptyCorpus"

(***************************************************************************)
(* The states between two calls of add_file: every add_file so far has     *)
(* returned Ok and finish has not been called.                             *)
(***************************************************************************)
Adding == main_pc \in {"running", "merging"}

\* The number of unlinks so far.
RECURSIVE SumCounts(_, _)
SumCounts(counts, names) ==
    IF names = {} THEN 0
    ELSE LET n == CHOOSE x \in names : TRUE
         IN  counts[n] + SumCounts(counts, names \ {n})

Unlinks == SumCounts(fs.unlinked, DOMAIN fs.unlinked)

Creations == SumCounts(fs.created, DOMAIN fs.created)

AfterEighth == Adding /\ Len(handed) = NSTREAMS

C12_CascadeUnlinksSeven ==
    AfterEighth =>
        /\ merge.stacks[1] = <<>>
        /\ Len(merge.stacks[2]) = 1
        /\ Unlinks = NSTREAMS - 1

(***************************************************************************)
(* C12, amended.  After the add_file that brings level 0 of an empty       *)
(* FileMerge to NSTREAMS files and returns Ok, stacks[0] is empty,         *)
(* stacks[1] holds one file, the output of the merge of the NSTREAMS       *)
(* files, and those NSTREAMS files have been unlinked, once each.          *)
(***************************************************************************)
C12_CascadeUnlinksEight ==
    AfterEighth =>
        /\ Len(merge.stacks) = 2
        /\ merge.stacks[1] = <<>>
        /\ Len(merge.stacks[2]) = 1
        /\ Len(fs.merges) = 1
        /\ fs.merges[1].ok
        /\ fs.merges[1].inputs = handed
        /\ fs.merges[1].out = merge.stacks[2][1]
        /\ merge.stacks[2][1] \in DOMAIN fs.tmp
        /\ fs.tmp[merge.stacks[2][1]] = fs.merges[1].output
        /\ Unlinks = NSTREAMS
        /\ \A i \in 1..NSTREAMS :
               /\ Count(fs.unlinked, fs.merges[1].files[i]) = 1
               /\ fs.merges[1].files[i] \notin DOMAIN fs.tmp

\* The pipelined build just after its eighth add_file.
C12_Witness == AfterEighth /\ ~single_threaded /\ files # <<>>

(***************************************************************************)
(* C13.  Bounded fan-in: every call of merge_streams, by add_file or by    *)
(* finish through merge_reversed, is given at most NSTREAMS files.         *)
(***************************************************************************)
C13_BoundedFanIn ==
    \A i \in DOMAIN fs.merges :
        Len(fs.merges[i].files) <= NSTREAMS

\* A cascade merge of add_file, then a merge of finish when its buffer
\* reached NSTREAMS files.
C13_Witness ==
    /\ Succeeded
    /\ Len(handed) = 2 * NSTREAMS - 1
    /\ Len(fs.merges) = 2
    /\ Len(fs.merges[1].files) = NSTREAMS
    /\ Len(fs.merges[2].files) = NSTREAMS

(***************************************************************************)
(* Invariant C of the file format: the Contents entries are contiguous,    *)
(* from the end of the header to the start of the Contents region.         *)
(***************************************************************************)
ContiguousContents(file) ==
    /\ file.contents # <<>>
    /\ file.contents[1].offset = HEADER_SIZE
    /\ \A i \in 1..(Len(file.contents) - 1) :
           file.contents[i].offset + file.contents[i].nbytes
             = file.contents[i + 1].offset
    /\ file.contents[Len(file.contents)].offset
         + file.contents[Len(file.contents)].nbytes = file.header

\* The files write_index_to_tmp_file has written: those handed to FileMerge
\* and those still waiting in the queue to it.
WrittenFiles ==
    Range(handed) \cup {fs.tmp[files[i]] : i \in DOMAIN files}

\* The files merge_streams has written.
MergedFiles == {fs.merges[i].output : i \in {j \in DOMAIN fs.merges : fs.merges[j].ok}}

TermsOf(file) == {file.contents[i].term : i \in DOMAIN file.contents}

(***************************************************************************)
(* C14.  Every file written by write_index_to_tmp_file has contiguous      *)
(* Contents entries: the first offset is 8, each entry ends where the next *)
(* begins, and the last ends at the header value.                          *)
(***************************************************************************)
C14_WrittenFilesContiguous ==
    \A file \in WrittenFiles :
        /\ ContiguousContents(file)
        /\ file.header = HEADER_SIZE + U32_BYTES * Len(file.main)

\* A written file with three terms is waiting for the merger and others
\* have been handed to it.
C14_Witness ==
    /\ handed # <<>>
    /\ \E i \in DOMAIN files : Len(fs.tmp[files[i]].contents) = 3

(***************************************************************************)
(* C15.  Every file emitted by merge_streams has contiguous Contents       *)
(* entries with the first offset 8 and the last entry ending at the header *)
(* value.  merge_streams counts its offsets from 0, not from the end of    *)
(* the header.                                                             *)
(***************************************************************************)
C15_MergedFilesContiguous ==
    \A file \in MergedFiles : ContiguousContents(file)

(***************************************************************************)
(* C16.  In every file produced through IndexFileWriter, by                *)
(* write_index_to_tmp_file or by merge_streams, the terms of Contents are  *)
(* strictly ascending in byte order; the output of merge_streams has each  *)
(* term of the union of its inputs exactly once.                           *)
(***************************************************************************)
TermsAscending(file) ==
    \A i \in 1..(Len(file.contents) - 1) :
        TermLess(file.contents[i].term, file.contents[i + 1].term)

C16_TermsAscending ==
    /\ \A file \in WrittenFiles \cup MergedFiles : TermsAscending(file)
    /\ \A i \in DOMAIN fs.merges :
           fs.merges[i].ok =>
               /\ TermsOf(fs.merges[i].output)
                    = UNION {TermsOf(fs.merges[i].inputs[k]) :
                                k \in DOMAIN fs.merges[i].inputs}
               /\ Cardinality(TermsOf(fs.merges[i].output))
                    = Len(fs.merges[i].output.contents)

\* A merge whose inputs have different sets of terms, with a term in common.
C16_Witness ==
    \E i \in DOMAIN fs.merges :
        /\ fs.merges[i].ok
        /\ \E k, l \in DOMAIN fs.merges[i].inputs :
               /\ TermsOf(fs.merges[i].inputs[k]) \ TermsOf(fs.merges[i].inputs[l]) # {}
               /\ TermsOf(fs.merges[i].inputs[l]) \ TermsOf(fs.merges[i].inputs[k]) # {}
               /\ TermsOf(fs.merges[i].inputs[k]) \cap TermsOf(fs.merges[i].inputs[l]) # {}

(***************************************************************************)
(* C17.  Merge preserves totals: for every term of the file merge_streams  *)
(* produces, df is the sum of the df of the inputs that have the term,     *)
(* nbytes the sum of their nbytes, and the Main region the concatenation   *)
(* of their regions for the term in the order of the files argument.       *)
(***************************************************************************)
EntryOf(file, term) == CHOOSE i \in DOMAIN file.contents : file.contents[i].term = term

\* The files of ins (by position, ascending) that have the term.
InputsWith(ins, term) ==
    SelectSeq([k \in 1..Len(ins) |-> k], LAMBDA k : term \in TermsOf(ins[k]))

\* The sum over the files ks of ins of the field of their entry for term.
RECURSIVE SumOver(_, _, _, _)
SumOver(ins, ks, term, field) ==
    IF ks = <<>> THEN 0
    ELSE ins[Head(ks)].contents[EntryOf(ins[Head(ks)], term)][field]
           + SumOver(ins, Tail(ks), term, field)

RECURSIVE RegionsOver(_, _, _)
RegionsOver(ins, ks, term) ==
    IF ks = <<>> THEN <<>>
    ELSE RegionOf(ins[Head(ks)], EntryOf(ins[Head(ks)], term))
           \o RegionsOver(ins, Tail(ks), term)

TotalsPreserved(ins, output) ==
    \A j \in DOMAIN output.contents :
        LET term == output.contents[j].term
            ks   == InputsWith(ins, term)
        IN  /\ output.contents[j].df = SumOver(ins, ks, term, "df")
            /\ output.contents[j].nbytes = SumOver(ins, ks, term, "nbytes")
            /\ RegionOf(output, j) = RegionsOver(ins, ks, term)

C17_MergePreservesTotals ==
    \A i \in DOMAIN fs.merges :
        fs.merges[i].ok =>
            /\ TotalsPreserved(fs.merges[i].inputs, fs.merges[i].output)
            /\ Len(fs.merges[i].output.main)
                 = SumNbytes(fs.merges[i].output.contents,
                             Len(fs.merges[i].output.contents)) \div U32_BYTES

\* A merge of NSTREAMS files in which one term is in every input and
\* another in some of them only.
C17_Witness ==
    \E i \in DOMAIN fs.merges :
        /\ fs.merges[i].ok
        /\ Len(fs.merges[i].inputs) = NSTREAMS
        /\ \E t, u \in TermsOf(fs.merges[i].output) :
               /\ Len(InputsWith(fs.merges[i].inputs, t)) = NSTREAMS
               /\ Len(InputsWith(fs.merges[i].inputs, u)) \in 2..(NSTREAMS - 1)

\* FileMerge::finish has returned Ok.
FinishedOk ==
    \/ single_threaded /\ main_pc = "returned" /\ ret = "Ok"
    \/ ~single_threaded /\ result = "Ok"

Renames == SumCounts(fs.renamed, DOMAIN fs.renamed)

(***************************************************************************)
(* C18.  finish when exactly one file has been added merges nothing and    *)
(* creates no temporary file: the file is renamed to index.dat, which is   *)
(* then identical to that file.                                            *)
(***************************************************************************)
C18_SingleFileFinish ==
    (FinishedOk /\ Len(handed) = 1) =>
        /\ fs.index = <<handed[1]>>
        /\ fs.merges = <<>>
        /\ Unlinks = 0
        /\ Renames = 1
        /\ single_threaded => Creations = 1 /\ fs.tmp = NoFiles

\* The build of one document with two terms has finished with its one file.
C18_Witness ==
    /\ FinishedOk /\ Len(handed) = 1
    /\ ~single_threaded
    /\ Len(handed[1].contents) = 2

(***************************************************************************)
(* C19.  After a successful build the output file is the sole survivor:    *)
(* every temporary file the build created has been unlinked by exactly one *)
(* open_and_delete, that is read by exactly one merge, or renamed to       *)
(* index.dat, and no temporary file is left in the directory.              *)
(***************************************************************************)
\* How many times a call of merge_streams was given the name n.  (A name
\* can be made again once its file is unlinked: on a long run the writer
\* reaches the name of a merged file that a later merge has unlinked, so
\* the files of a name are counted, each made once and removed once.)
TimesMerged(n) ==
    Cardinality({p \in UNION {{<<i, k>> : k \in DOMAIN fs.merges[i].files} :
                                 i \in DOMAIN fs.merges} :
                    fs.merges[p[1]].files[p[2]] = n})

C19_SoleSurvivor ==
    Succeeded =>
        /\ fs.tmp = NoFiles
        /\ Len(fs.index) = 1
        /\ Renames = 1
        /\ (DOMAIN fs.unlinked) \cup (DOMAIN fs.renamed) \subseteq DOMAIN fs.created
        /\ \A n \in DOMAIN fs.created :
               /\ Count(fs.unlinked, n) + Count(fs.renamed, n) = fs.created[n]
               /\ Count(fs.renamed, n) <= 1
               /\ TimesMerged(n) = Count(fs.unlinked, n)

\* A successful pipelined build with a cascade merge, a merge in finish and
\* the rename of its output.
C19_Witness ==
    /\ Succeeded /\ ~single_threaded
    /\ Len(fs.merges) = 2
    /\ Unlinks = Len(handed) + 1
    /\ Creations = Len(handed) + 2

(***************************************************************************)
(* C20.  The exit code of the program is 0 when run succeeds and non-zero  *)
(* when run returns an error, and in the error case a message that begins  *)
(* with "error: " is written on standard output.  main returns normally    *)
(* after it has printed the message: the exit code is 0 in both cases.     *)
(***************************************************************************)
C20_ExitCode ==
    exit_status # <<>> =>
        IF ret = "Ok"
        THEN exit_status[1] = 0
        ELSE /\ exit_status[1] # 0
             /\ fs.stdout # <<>>
             /\ fs.stdout[Len(fs.stdout)][1] = "error: "

\* What main does keep: the message in the error case, and status 0 on
\* success.
C20_ErrorMessage ==
    exit_status # <<>> =>
        IF ret = "Ok"
        THEN exit_status[1] = 0 /\ \A i \in DOMAIN fs.stdout : fs.stdout[i][1] # "error: "
        ELSE /\ fs.stdout # <<>>
             /\ fs.stdout[Len(fs.stdout)] = <<"error: ", ret>>

(***************************************************************************)
(* C21 - C28.  The TmpDirs of a run: the one write_index_to_tmp_file uses  *)
(* (a local of run_single_threaded, or of the index writer thread) and the *)
(* one of the FileMerge.                                                   *)
(***************************************************************************)
TmpDirs == {tmp_dir, merge.tmp_dir}

\* The attempts of td on which create returned the AlreadyExists error.
Exhausted(td) ==
    {i \in DOMAIN td.tried :
        td.tried[i].outcome = "AlreadyExists" /\ td.tried[i].returned}

\* Attempt i of td is the last of `tries` attempts of one call, numbered
\* 1 .. tries, that all collided.
CollidedRun(td, i, tries) ==
    /\ i >= tries
    /\ \A k \in 1..tries :
           /\ td.tried[i - tries + k].try = k
           /\ td.tried[i - tries + k].outcome = "AlreadyExists"

\* The counter of td only grows, attempt after attempt and call after call.
CounterIncreases(td) ==
    /\ \A i \in 1..(Len(td.tried) - 1) : td.tried[i].n < td.tried[i + 1].n
    /\ \A i \in DOMAIN td.tried : td.tried[i].n < td.n

\* A collision below the limit is retried at once, with r#try one more; any
\* other outcome of the open ends the call.
RetriesOnCollision(td) ==
    \A i \in DOMAIN td.tried :
        LET a == td.tried[i]
        IN  IF a.outcome = "AlreadyExists" /\ a.try < TRY_LIMIT
            THEN /\ ~a.returned
                 /\ i < Len(td.tried)
                 /\ td.tried[i + 1].try = a.try + 1
            ELSE /\ a.returned
                 /\ i < Len(td.tried) => td.tried[i + 1].try = 1

\* C21 as stated.  TmpDir.create uses a strictly increasing counter, also
\* across calls; a non-collision open error is returned at once; and the
\* already-exists failure is returned only after 999 retries have collided,
\* that is after the first attempt and 999 more.
C21_FailsAfter999Retries ==
    \A td \in TmpDirs :
        /\ CounterIncreases(td)
        /\ RetriesOnCollision(td)
        /\ \A i \in Exhausted(td) : CollidedRun(td, i, 1 + TRY_LIMIT)

\* C21 as the code has it.  The same, with the already-exists failure
\* returned when 999 attempts of one call (the first and 998 retries) have
\* collided, and only then.
C21_FailsAfter999Attempts ==
    \A td \in TmpDirs :
        /\ CounterIncreases(td)
        /\ RetriesOnCollision(td)
        /\ \A i \in Exhausted(td) :
               /\ td.tried[i].try = TRY_LIMIT
               /\ CollidedRun(td, i, TRY_LIMIT)

\* A create of the writer has returned a file on its last attempt, and the
\* create of the file merger has then given up after TRY_LIMIT collisions.
C21_Witness ==
    /\ Exhausted(tmp_dir) = {}
    /\ \E i \in DOMAIN tmp_dir.tried :
           tmp_dir.tried[i].try = TRY_LIMIT /\ tmp_dir.tried[i].outcome = "Ok"
    /\ Exhausted(merge.tmp_dir) # {}
    /\ Len(merge.tmp_dir.tried) = TRY_LIMIT
    /\ merge.tmp_dir.n = 1 + TRY_LIMIT

(***************************************************************************)
(* C22.  The paths the build holds while files are being added: those in   *)
(* the writer's output queue and those in the stacks of the FileMerge.     *)
(***************************************************************************)
HeldPaths == files \o Flatten(merge.stacks)

\* How many files of this name the build has made and not removed.
Living(name) ==
    Count(fs.created, name) - Count(fs.unlinked, name) - Count(fs.renamed, name)

\* Some attempt of td collided.
HasCollided(td) == \E i \in DOMAIN td.tried : td.tried[i].outcome = "AlreadyExists"

\* C22.  Temporary filenames are distinct across stages: create never
\* returns a path that names a file existing at that moment (a name is
\* made only while no file has it), so while files are being added the
\* paths in the writer's output queue and in the stacks of the FileMerge
\* are pairwise distinct and each names its own file, the one file of that
\* name that is there; and the output of every merge is a file apart from the inputs of
\* that merge which, when the merge has failed, no held path names.
C22_DistinctNames ==
    /\ \A name \in DOMAIN fs.created :
           Living(name) = IF name \in DOMAIN fs.tmp THEN 1 ELSE 0
    /\ DOMAIN fs.tmp \subseteq DOMAIN fs.created
    /\ Adding =>
           /\ \A i, j \in DOMAIN HeldPaths : i # j => HeldPaths[i] # HeldPaths[j]
           /\ \A i \in DOMAIN HeldPaths :
                  /\ HeldPaths[i] \in DOMAIN fs.tmp
                  /\ Living(HeldPaths[i]) = 1
                  /\ fs.tmp[HeldPaths[i]] # UnfinishedFile
           /\ \A k \in DOMAIN fs.merges :
                  /\ fs.merges[k].out \notin Range(fs.merges[k].files)
                  /\ ~fs.merges[k].ok => fs.merges[k].out \notin Range(HeldPaths)

\* Both TmpDirs have run into names of the other stage, and paths are held
\* in the queue and on two levels of the stacks.
C22_Witness ==
    /\ ~single_threaded /\ Adding
    /\ HasCollided(tmp_dir) /\ HasCollided(merge.tmp_dir)
    /\ Len(files) >= 2
    /\ Len(merge.stacks) = 2
    /\ merge.stacks[1] # <<>> /\ merge.stacks[2] # <<>>

(***************************************************************************)
(* C23.  The order of the files in the merges of finish that opened their  *)
(* inputs.  The level of a file is read off the record of the merges: a    *)
(* file that add_file merged is one level above the files it was merged    *)
(* from, any other file that was added is of level 0.  Files are told      *)
(* apart by what they hold, since a name can be made again once its file   *)
(* is unlinked.                                                            *)
(***************************************************************************)
MergesBy(caller) ==
    {k \in DOMAIN fs.merges : fs.merges[k].ok /\ fs.merges[k].caller = caller}

\* The file is the output of a merge of finish.
MergedByFinish(file) ==
    \E k \in MergesBy("merge_reversed") : fs.merges[k].output = file

\* The call of merge_streams by add_file that wrote the file.
MergeOf(file) == CHOOSE k \in MergesBy("add_file") : fs.merges[k].output = file

MergedByAddFile(file) == \E k \in MergesBy("add_file") : fs.merges[k].output = file

RECURSIVE LevelOf(_)
LevelOf(file) ==
    IF MergedByAddFile(file) THEN 1 + LevelOf(fs.merges[MergeOf(file)].inputs[1]) ELSE 0

\* The documents a file has postings of.
DocsOf(file) == {w[2] : w \in {x \in Range(file.main) : x[1] = "doc"}}

\* Every document of file f comes before every document of file g.
BuiltBefore(f, g) == \A a \in DocsOf(f) : \A b \in DocsOf(g) : a < b

\* C23 as stated.  In every merge performed by finish, the higher-level,
\* earlier-built files are at the end of the group passed to merge_streams:
\* after the lower-level files and after any file finish has already merged.
C23_EarlierFilesLast ==
    \A k \in MergesBy("merge_reversed") :
        LET group == fs.merges[k].inputs
        IN  \A i, j \in DOMAIN group :
                i < j =>
                    /\ MergedByFinish(group[j]) => MergedByFinish(group[i])
                    /\ /\ ~MergedByFinish(group[i]) /\ ~MergedByFinish(group[j])
                       /\ LevelOf(group[i]) # LevelOf(group[j])
                       => /\ LevelOf(group[i]) < LevelOf(group[j])
                          /\ BuiltBefore(group[j], group[i])

\* C23 as the code has it.  In every merge performed by finish, the
\* higher-level, earlier-built files are at the start of the group passed
\* to merge_streams: before the lower-level files, and a file finish has
\* already merged is the last of the group.
C23_EarlierFilesFirst ==
    \A k \in MergesBy("merge_reversed") :
        LET group == fs.merges[k].inputs
        IN  \A i, j \in DOMAIN group :
                i < j =>
                    /\ ~MergedByFinish(group[i])
                    /\ ~MergedByFinish(group[j]) =>
                           LevelOf(group[i]) >= LevelOf(group[j])
                    /\ BuiltBefore(group[i], group[j])

\* finish has merged NSTREAMS files inside its loop (one of level 1 and
\* seven of level 0) and then the other file of level 1 with the result.
C23_Witness ==
    /\ Succeeded
    /\ \E k \in MergesBy("merge_reversed") :
           /\ Len(fs.merges[k].inputs) = 2
           /\ LevelOf(fs.merges[k].inputs[1]) = 1
           /\ MergedByFinish(fs.merges[k].inputs[2])
    /\ \E k \in MergesBy("merge_reversed") :
           /\ Len(fs.merges[k].inputs) = NSTREAMS
           /\ LevelOf(fs.merges[k].inputs[1]) = 1
           /\ \A i \in 2..NSTREAMS : LevelOf(fs.merges[k].inputs[i]) = 0

(***************************************************************************)
(* C24.  The levels of the stacks.                                         *)
(***************************************************************************)
RECURSIVE SumSupplied(_)

\* How many files handed in by the caller the file is made of.
SuppliedIn(file) ==
    IF MergedByAddFile(file) THEN SumSupplied(fs.merges[MergeOf(file)].inputs) ELSE 1

SumSupplied(group) ==
    IF group = <<>> THEN 0 ELSE SuppliedIn(Head(group)) + SumSupplied(Tail(group))

\* How many merges have rewritten the data of the file.
RECURSIVE Rewrites(_)
Rewrites(file) ==
    IF \E k \in DOMAIN fs.merges : file \in Range(fs.merges[k].inputs)
    THEN 1 + Rewrites(fs.merges[CHOOSE k \in DOMAIN fs.merges :
                                    file \in Range(fs.merges[k].inputs)].output)
    ELSE 0

\* C24.  After any sequence of successful add_file calls, every file in
\* stacks[0] is a file handed in by the caller, every file in stacks[k]
\* (k >= 1) is the merge of exactly NSTREAMS files of level k - 1 and so
\* contains exactly NSTREAMS^k caller-supplied files; before finish, the
\* data of a caller-supplied file has been rewritten by at most as many
\* merges as there are levels above 0.
C24_LevelStructure ==
    Adding =>
        /\ \A l \in DOMAIN merge.stacks :
               \A p \in DOMAIN merge.stacks[l] :
                   LET file == fs.tmp[merge.stacks[l][p]]
                   IN  /\ LevelOf(file) = l - 1
                       /\ SuppliedIn(file) = NSTREAMS ^ (l - 1)
                       /\ Cardinality({h \in DOMAIN handed :
                                          DocsOf(handed[h]) \subseteq DocsOf(file)})
                              = NSTREAMS ^ (l - 1)
                       /\ l = 1 => file \in Range(handed)
                       /\ l > 1 =>
                              /\ Len(fs.merges[MergeOf(file)].inputs) = NSTREAMS
                              /\ \A i \in 1..NSTREAMS :
                                     LevelOf(fs.merges[MergeOf(file)].inputs[i]) = l - 2
        /\ \A h \in DOMAIN handed : Rewrites(handed[h]) <= Len(merge.stacks) - 1

\* A file of level 2 is in the stacks, and a file has been added after it.
C24_Witness ==
    /\ Adding
    /\ Len(merge.stacks) = 3
    /\ Len(merge.stacks[3]) = 1
    /\ Len(merge.stacks[1]) = 1
    /\ Len(handed) = NSTREAMS * NSTREAMS + 1
    /\ \E h \in DOMAIN handed : Rewrites(handed[h]) = 2

(***************************************************************************)
(* C25.  The flush rule.  The words of a file are the positions in its     *)
(* Main region; a position belongs to the document whose id is the nearest *)
(* one before it.                                                          *)
(***************************************************************************)
Positions(file) == {i \in DOMAIN file.main : file.main[i][1] = "pos"}

WordCount(file) == Cardinality(Positions(file))

\* The document of the position at i of the Main region.
DocumentAt(file, i) ==
    file.main[CHOOSE j \in 1..i :
                 /\ file.main[j][1] = "doc"
                 /\ \A k \in (j + 1)..i : file.main[k][1] = "pos"][2]

\* The words of the file that are of a document other than d.
WordsNotOf(file, d) ==
    Cardinality({i \in Positions(file) : DocumentAt(file, i) # d})

LastDocOf(file) == CHOOSE d \in DocsOf(file) : \A e \in DocsOf(file) : e <= d

\* The documents an in-memory index has hits of.
DocsOfIndex(index) ==
    UNION {{index.map[t][h][1][2] : h \in DOMAIN index.map[t]} : t \in DOMAIN index.map}

\* The file that write_index_to_tmp_file makes of every index in the queue
\* to the writer.
QueuedFiles == {IndexFileOf(gallons[i]) : i \in DOMAIN gallons}

\* The accumulator is a live local of the loop that merges into it.
AccumulatorLive == IF single_threaded THEN main_pc = "running" ELSE h3 = "running"

\* The loop over the input of the accumulator has ended: the for loop of
\* run_single_threaded has consumed every document, or the merge thread has
\* found its channel empty and closed.
EndOfInput ==
    IF single_threaded
    THEN main_pc # "running" /\ doc_id = Len(documents)
    ELSE h3 = "done"

\* No index and no file has been dropped on the way: no send has failed and
\* neither the writer nor the file merger has returned an error.
NothingDropped ==
    /\ send_failed = {}
    /\ "writer" \notin Range(errlog) /\ "main" \notin Range(errlog)
    /\ single_threaded => main_pc = "running" \/ Succeeded

RECURSIVE SumWords(_)
SumWords(indexes) ==
    IF indexes = <<>> THEN 0 ELSE Head(indexes).word_count + SumWords(Tail(indexes))

RECURSIVE SumWordCount(_)
SumWordCount(fileset) ==
    IF fileset = {} THEN 0
    ELSE LET f == CHOOSE x \in fileset : TRUE
         IN  WordCount(f) + SumWordCount(fileset \ {f})

\* The words of the documents the accumulator has been given so far.
WordsAccumulated ==
    LET given == IF single_threaded THEN doc_id ELSE doc_id - Len(pints)
    IN  SumWords([d \in 1..given |->
                     from_single_document(d - 1, documents[d].text)])

\* C25.  In both modes the accumulator is flushed exactly when, right
\* after a document's index is merged into it, its word_count exceeds
\* REASONABLE_SIZE, or at the end of input when it is not empty, and it
\* restarts empty after a flush: it is never large between two documents;
\* a flushed index was not large before its last document, and is large
\* unless it is the last one, flushed at the end of input; the documents of
\* the flushed indexes and of the accumulator follow one another; while
\* nothing is dropped, the words given to the accumulator are those it
\* holds plus those flushed, and none stay in it after the end of input.
\* So no empty index is written and every file given to add_file has at
\* least one Contents entry.
C25_FlushRule ==
    LET flushed == WrittenFiles \cup QueuedFiles
    IN  /\ AccumulatorLive => ~is_large(accumulated_index)
        /\ \A i \in DOMAIN gallons : ~is_empty(gallons[i]) /\ gallons[i].map # <<>>
        /\ \A f \in flushed :
               /\ Len(f.contents) >= 1 /\ WordCount(f) >= 1
               /\ WordsNotOf(f, LastDocOf(f)) <= REASONABLE_SIZE
               /\ \A d \in DocsOfIndex(accumulated_index) : LastDocOf(f) < d
               /\ WordCount(f) <= REASONABLE_SIZE =>
                      /\ EndOfInput
                      /\ single_threaded =>
                             \A d \in (LastDocOf(f) + 2)..Len(documents) :
                                 tokenize(to_lowercase(documents[d].text)) = <<>>
                      /\ \A g \in flushed \ {f} : BuiltBefore(g, f)
               /\ \A g \in flushed \ {f} : BuiltBefore(f, g) \/ BuiltBefore(g, f)
        /\ \A i \in DOMAIN handed : Len(handed[i].contents) >= 1
        /\ EndOfInput /\ NothingDropped => is_empty(accumulated_index)
        /\ NothingDropped =>
               WordsAccumulated = accumulated_index.word_count + SumWordCount(flushed)

\* A pipelined build of two files: the first flushed because the
\* accumulator was large, the second, of a single word, at the end of input.
C25_Witness ==
    /\ Succeeded /\ ~single_threaded
    /\ Len(handed) = 2
    /\ WordCount(handed[1]) > REASONABLE_SIZE
    /\ WordCount(handed[2]) = 1

(***************************************************************************)
(* C26.  The bookkeeping of the main loop of merge_streams, in every merge *)
(* that a build has run to its end.                                        *)
(***************************************************************************)
CompletedMerges == {k \in DOMAIN fs.merges : fs.merges[k].ok}

LoopOf(k) == merge_opened(fs.merges[k].inputs)

Pending(lookaheads) == {i \in DOMAIN lookaheads : lookaheads[i] # <<>>}

\* C26.  At every evaluation of the loop test, count is the number of
\* readers whose lookahead is not empty, so that a minimum term is found
\* whenever count > 0 (the loop never returns AlgorithmError);
\* move_entry_to is called only on a reader with a pending entry; and when
\* the loop exits the lookahead of every reader is None.
C26_LoopBookkeeping ==
    \A k \in CompletedMerges :
        LET loop == LoopOf(k)
        IN  /\ loop.ok
            /\ \A t \in DOMAIN loop.tests :
                   loop.tests[t].count = Cardinality(Pending(loop.tests[t].lookaheads))
            /\ \A m \in DOMAIN loop.moved : loop.moved[m] # <<>>
            /\ loop.tests[Len(loop.tests)].count = 0
            /\ \A i \in DOMAIN loop.streams : peek(loop.streams[i]) = <<>>

\* A merge of NSTREAMS files whose readers finish at different iterations:
\* a test sees some readers pending and others finished, and some reader
\* moves more than one entry.
C26_Witness ==
    \E k \in CompletedMerges :
        LET loop == LoopOf(k)
        IN  /\ Len(fs.merges[k].inputs) = NSTREAMS
            /\ Len(loop.tests) >= 3
            /\ \E t \in DOMAIN loop.tests :
                   loop.tests[t].count > 0 /\ loop.tests[t].count < NSTREAMS
            /\ Len(loop.moved) > NSTREAMS

(***************************************************************************)
(* C27.  The file merger's TmpDir in pipelined mode.  The writer thread    *)
(* and FileMerge each have a TmpDir of their own, both counting from 1 in  *)
(* the same directory, which at the start of the build is empty.           *)
(***************************************************************************)
\* C27.  In pipelined mode, when no I/O fault strikes and only the build
\* creates files in the output directory, no create call of FileMerge
\* returns the AlreadyExists error, however many files the writer thread
\* has created and queued ahead of the file merger.
C27_MergerCreateSucceeds ==
    ~single_threaded /\ ~fs.faulted => Exhausted(merge.tmp_dir) = {}

(***************************************************************************)
(* C28.  A merge_streams that returns an error.                            *)
(***************************************************************************)
FailedMerges == {k \in DOMAIN fs.merges : ~fs.merges[k].ok}

\* The error of the merge is what the build returns.
MergeErrorReturned ==
    IF single_threaded
    THEN main_pc = "returned" /\ ret = "MergeIo"
    ELSE main_pc \in {"joining", "returned"} /\ result = "MergeIo"

\* C28.  When merge_streams has returned an error: the inputs it had opened
\* are unlinked and those it had not reached are still on disk; no stack of
\* the FileMerge names any of its inputs; the output file that was created
\* for it is on disk, unfinished, named by no stack and by no queue, and is
\* not renamed to index.dat; and the error is returned without a retry: the
\* failed call is the last call of merge_streams and the create for its
\* output is the last create of the FileMerge.
C28_FailedMerge ==
    \A k \in FailedMerges :
        LET r == fs.merges[k]
            last == merge.tmp_dir.tried[Len(merge.tmp_dir.tried)]
        IN  /\ \A i \in 1..r.opened :
                   r.files[i] \notin DOMAIN fs.tmp /\ Count(fs.unlinked, r.files[i]) >= 1
            /\ \A i \in (r.opened + 1)..Len(r.files) : r.files[i] \in DOMAIN fs.tmp
            /\ \A i \in DOMAIN r.files : r.files[i] \notin Range(Flatten(merge.stacks))
            /\ r.out \in DOMAIN fs.tmp /\ fs.tmp[r.out] = UnfinishedFile
            /\ r.out \notin Range(HeldPaths)
            /\ fs.index = <<>>
            /\ k = Len(fs.merges)
            /\ last.outcome = "Ok" /\ tmp_filename(last.n) = r.out
            /\ MergeErrorReturned

\* add_file's merge of a full stack has failed at an input that is neither
\* the first nor the last, in pipelined mode.
C28_Witness ==
    /\ ~single_threaded
    /\ \E k \in FailedMerges :
           /\ fs.merges[k].caller = "add_file"
           /\ fs.merges[k].opened > 0
           /\ fs.merges[k].opened < Len(fs.merges[k].files) - 1

\* finish's merge has failed after all its inputs were opened.
C28_WitnessFinish ==
    \E k \in FailedMerges :
        /\ fs.merges[k].caller = "merge_reversed"
        /\ fs.merges[k].opened = Len(fs.merges[k].files)

====
